---- MODULE Spec2Model ----
(***************************************************************************)
(* Model of the schedule normalisation, merge and upsert code of           *)
(* app/ocr.py.                                                             *)
(*                                                                         *)
(* A Python str is modelled as a sequence of characters; a character is a  *)
(* one-element name: ASCII characters stand for themselves, the others     *)
(* carry a name ("ar8" is U+0668, "endash" is U+2013, "alef" is U+0627).   *)
(* A Python value of unknown type is a record [kind, val] with kind one of *)
(* "none", "str", "list", "num".                                           *)
(***************************************************************************)
EXTENDS Integers, Sequences, FiniteSets, TLC

VARIABLES
    dayInput,     \* the day designator a caller starts from
    dayValue,     \* argument of the latest _normalize_days call
    dayResult,    \* its result (NotCalled before the first call)
    dayPrev,      \* result of the call before it (NotCalled if none)
    timeArg,      \* the time text handed to the time parser
    hhmmResult,   \* result of _to_hhmm(timeArg) (NotCalled before the call)
    spanResult,   \* result of _normalize_time_span(timeArg)
    items,        \* the list handed to _merge_slots
    mergeResult,  \* its result (NotCalled before the call)
    store,        \* the rows of the classes table, in insertion order
    secs,         \* TRUE when the table returns times as HH:MM:SS
    call,         \* the upsert_classes_from_parsed call that has not returned yet
    calls,        \* number of calls made
    keyArgs,     \* the arguments of the latest _canon_slot_key call
    keyResult,   \* its result (NotCalled before the call)
    raised,      \* the exception the latest upsert_classes_from_parsed call ended with
    procs,       \* the running invocation of each user, step by step
    startStore,  \* the rows of the table before the invocations began
    tokArg,      \* the token handed to _normalize_day_token
    tokResult,   \* its result (NotCalled before the call)
    rawEntry,    \* the raw class entry handed to both per-item normalizations
    geminiSlot,  \* what gemini_extract_schedule makes of it (NotCalled before)
    upsertSlot,  \* what upsert_classes_from_parsed makes of it (NotCalled before)
    fixInput,    \* the raw class entries of a reply
    fixOnce,     \* the list normalized and merged once (NotCalled before)
    fixTwice     \* that list normalized and merged again (NotCalled before)

dayVars == <<dayInput, dayValue, dayResult, dayPrev>>

timeVars == <<timeArg, hhmmResult, spanResult>>

mergeVars == <<items, mergeResult>>

dbVars == <<store, secs, call, calls>>

keyVars == <<keyArgs, keyResult>>

errVars == <<raised>>

procVars == <<procs, startStore>>

tokenVars == <<tokArg, tokResult>>

entryVars == <<rawEntry, geminiSlot, upsertSlot>>

fixVars == <<fixInput, fixOnce, fixTwice>>

vars == <<dayInput, dayValue, dayResult, dayPrev, timeArg, hhmmResult, spanResult,
          items, mergeResult, store, secs, call, calls,
          keyArgs, keyResult,
          raised,
          procs, startStore,
          tokArg, tokResult,
          rawEntry, geminiSlot, upsertSlot,
          fixInput, fixOnce, fixTwice>>

NotCalled == [kind |-> "notcalled", val |-> <<>>]

\* no exception
NoError == "none"

\* Python None, and the typed values the code distinguishes with isinstance
None == [kind |-> "none", val |-> <<>>]

PyStr(s) == [kind |-> "str", val |-> s]

PyList(l) == [kind |-> "list", val |-> l]

IsStr(v) == v.kind = "str"

IsList(v) == v.kind = "list"

\* truthiness of a value: None, "" and [] are falsy
Truthy(v) ==
    CASE v.kind = "none" -> FALSE
      [] v.kind = "str"  -> v.val # <<>>
      [] v.kind = "list" -> v.val # <<>>
      [] OTHER           -> v.val # 0

---------------------------------------------------------------------------
\* Characters

Digits == <<"0", "1", "2", "3", "4", "5", "6", "7", "8", "9">>

ArDigits == <<"ar0", "ar1", "ar2", "ar3", "ar4", "ar5", "ar6", "ar7", "ar8", "ar9">>

UpperChars == <<"A", "B", "C", "D", "E", "F", "G", "H", "I", "J", "K", "L", "M",
                "N", "O", "P", "Q", "R", "S", "T", "U", "V", "W", "X", "Y", "Z">>

LowerChars == <<"a", "b", "c", "d", "e", "f", "g", "h", "i", "j", "k", "l", "m",
                "n", "o", "p", "q", "r", "s", "t", "u", "v", "w", "x", "y", "z">>

\* what str.strip() and the regex class \s remove
Whitespace == {" ", "tab", "nl"}

IsDigit(c) == \E i \in 1..10 : Digits[i] = c

DigitVal(c) == (CHOOSE i \in 1..10 : Digits[i] = c) - 1

IsUpper(c) == \E i \in 1..Len(UpperChars) : UpperChars[i] = c

IsLower(c) == \E i \in 1..Len(LowerChars) : LowerChars[i] = c

IsCased(c) == IsUpper(c) \/ IsLower(c)

LowerChar(c) ==
    IF IsUpper(c) THEN LowerChars[CHOOSE i \in 1..Len(UpperChars) : UpperChars[i] = c] ELSE c

UpperChar(c) ==
    IF IsLower(c) THEN UpperChars[CHOOSE i \in 1..Len(LowerChars) : LowerChars[i] = c] ELSE c

\* str.translate(_AR_NUM) on one character
ArNumChar(c) ==
    IF \E i \in 1..10 : ArDigits[i] = c
    THEN Digits[CHOOSE i \in 1..10 : ArDigits[i] = c]
    ELSE c

---------------------------------------------------------------------------
\* String primitives

\* str.translate(_AR_NUM)
_AR_NUM(s) == [i \in 1..Len(s) |-> ArNumChar(s[i])]

\* str.lower
Lower(s) == [i \in 1..Len(s) |-> LowerChar(s[i])]

\* s[a:] and s[:b] of Python, for non-negative a, b
DropFirst(s, n) == IF n >= Len(s) THEN <<>> ELSE SubSeq(s, n + 1, Len(s))

TakeFirst(s, n) == IF n >= Len(s) THEN s ELSE SubSeq(s, 1, n)

RECURSIVE LStrip(_)
LStrip(s) ==
    IF s # <<>> /\ Head(s) \in Whitespace THEN LStrip(Tail(s)) ELSE s

RECURSIVE RStrip(_)
RStrip(s) ==
    IF s # <<>> /\ s[Len(s)] \in Whitespace THEN RStrip(SubSeq(s, 1, Len(s) - 1)) ELSE s

Strip(s) == RStrip(LStrip(s))

\* str.replace(old, new) for a single character old
ReplaceChar(s, old, new) == [i \in 1..Len(s) |-> IF s[i] = old THEN new ELSE s[i]]

RemoveChars(s, cs) == SelectSeq(s, LAMBDA c : c \notin cs)

StartsWith(s, p) == Len(s) >= Len(p) /\ SubSeq(s, 1, Len(p)) = p

\* str.title(): a cased character is upper-cased when the character before
\* it is not cased, lower-cased otherwise
Title(s) ==
    [i \in 1..Len(s) |->
        IF i > 1 /\ IsCased(s[i - 1]) THEN LowerChar(s[i]) ELSE UpperChar(s[i])]

\* re.split(r"[seps]+", s): the pieces between maximal runs of separator
\* characters, leading and trailing empty pieces included
RECURSIVE SplitRuns(_, _, _, _)
SplitRuns(s, seps, cur, inRun) ==
    IF s = <<>> THEN <<cur>>
    ELSE IF Head(s) \in seps
         THEN IF inRun THEN SplitRuns(Tail(s), seps, cur, TRUE)
              ELSE <<cur>> \o SplitRuns(Tail(s), seps, <<>>, TRUE)
         ELSE SplitRuns(Tail(s), seps, Append(cur, Head(s)), FALSE)

ReSplit(s, seps) == SplitRuns(s, seps, <<>>, FALSE)

\* str.join
RECURSIVE Join(_, _)
Join(parts, sep) ==
    IF parts = <<>> THEN <<>>
    ELSE IF Len(parts) = 1 THEN parts[1]
    ELSE parts[1] \o sep \o Join(Tail(parts), sep)

SeqToSet(s) == {s[i] : i \in 1..Len(s)}

---------------------------------------------------------------------------
\* Day names

\* the keys of _DAY_MAP, by day; a key written twice in the literal is one key
DayKeysSun == {
    <<"alef", "lam", "alef_hamza", "hah", "dal">>,
    <<"alef", "lam", "alef", "hah", "dal">>,
    <<"alef", "lamalef_hamza_lig", "hah", "dal">>,
    <<"alef_hamza", "hah", "dal">>,
    <<"alef", "hah", "dal">>,
    <<"s", "u", "n">> }

DayKeysMon == {
    <<"alef", "lam", "alef", "theh", "noon", "yeh", "noon">>,
    <<"alef", "lam", "alef_hamza_below", "theh", "noon", "yeh", "noon">>,
    <<"alef", "theh", "noon", "yeh", "noon">>,
    <<"m", "o", "n">> }

DayKeysTue == {
    <<"alef", "lam", "theh", "lam", "alef", "theh", "alef", "hamza">>,
    <<"theh", "lam", "alef", "theh", "alef", "hamza">>,
    <<"t", "u", "e">>,
    <<"t", "u", "e", "s">> }

DayKeysWed == {
    <<"alef", "lam", "alef_hamza", "reh", "beh", "ain", "alef", "hamza">>,
    <<"alef", "lam", "alef", "reh", "beh", "ain", "alef", "hamza">>,
    <<"alef", "reh", "beh", "ain", "alef", "hamza">>,
    <<"w", "e", "d">> }

DayKeysThu == {
    <<"alef", "lam", "khah", "meem", "yeh", "seen">>,
    <<"t", "h", "u">>,
    <<"t", "h", "u", "r">>,
    <<"t", "h", "u", "r", ".">> }

DayKeysFri == {
    <<"alef", "lam", "jeem", "meem", "ain", "teh_marbuta">>,
    <<"jeem", "meem", "ain", "teh_marbuta">>,
    <<"f", "r", "i">> }

DayKeysSat == {
    <<"alef", "lam", "seen", "beh", "teh">>,
    <<"seen", "beh", "teh">>,
    <<"s", "a", "t">> }

_DAY_ORDER == <<
    <<"S", "u", "n">>, <<"M", "o", "n">>, <<"T", "u", "e">>, <<"W", "e", "d">>,
    <<"T", "h", "u">>, <<"F", "r", "i">>, <<"S", "a", "t">> >>

DayKeys == <<DayKeysSun, DayKeysMon, DayKeysTue, DayKeysWed, DayKeysThu, DayKeysFri, DayKeysSat>>

InDayMap(k) == \E i \in 1..7 : k \in DayKeys[i]

\* _DAY_MAP[k], for a key k
_DAY_MAP(k) == _DAY_ORDER[CHOOSE i \in 1..7 : k \in DayKeys[i]]

DayCodes == SeqToSet(_DAY_ORDER)

ArticlePrefix == <<"alef", "lam">>

\* _normalize_day_token(tok): a day code, or NoDay for Python's None
NoDay == <<>>

\* a lookup that forgets to lower-case the token and has no title-case fallback
NormalizeDayTokenCaseSensitive(tok) ==
    IF tok = <<>> THEN NoDay
    ELSE
        LET t == RemoveChars(_AR_NUM(Strip(tok)), {"rlm", "lrm"})
        IN  IF InDayMap(t) THEN _DAY_MAP(t) ELSE NoDay

_normalize_day_token(tok) ==
    IF tok = <<>> THEN NoDay
    ELSE
        LET t     == RemoveChars(_AR_NUM(Strip(tok)), {"rlm", "lrm"})
            t_low == Lower(t)
            x     == DropFirst(t_low, 2)
            cap   == Title(TakeFirst(t, 3))
        IN  IF InDayMap(t_low) THEN _DAY_MAP(t_low)
            ELSE IF StartsWith(t_low, ArticlePrefix) /\ InDayMap(x) THEN _DAY_MAP(x)
            ELSE IF cap \in DayCodes THEN cap
            ELSE NoDay

\* the candidates of _normalize_days: the list itself, the pieces of the
\* string, or nothing
DayCandidates(value) ==
    IF IsList(value) THEN value.val
    ELSE IF IsStr(value)
         THEN ReSplit(ReplaceChar(value.val, "arcomma", ","), {",", "/", "|"} \cup Whitespace)
         ELSE <<>>

\* the loop of _normalize_days: append each recognised day not yet seen
RECURSIVE CollectDays(_, _)
CollectDays(cands, tokens) ==
    IF cands = <<>> THEN tokens
    ELSE LET d == _normalize_day_token(Head(cands))
         IN  IF d # NoDay /\ d \notin SeqToSet(tokens)
             THEN CollectDays(Tail(cands), Append(tokens, d))
             ELSE CollectDays(Tail(cands), tokens)

\* the collected days returned in the order they were met
CanonicalOrderAsMet(tokens) == tokens

\* [d for d in _DAY_ORDER if d in tokens]
CanonicalOrder(tokens) == SelectSeq(_DAY_ORDER, LAMBDA d : d \in SeqToSet(tokens))

_normalize_days(value) == CanonicalOrder(CollectDays(DayCandidates(value), <<>>))

---------------------------------------------------------------------------
\* Times

\* Python's None as the result of _to_hhmm
NoTime == <<>>

DashGlyphs == {"figdash", "endash", "emdash"}

AllDigits(s) == \A i \in 1..Len(s) : IsDigit(s[i])

\* int() of a digit string
RECURSIVE IntOf(_)
IntOf(s) == IF s = <<>> THEN 0 ELSE 10 * IntOf(SubSeq(s, 1, Len(s) - 1)) + DigitVal(s[Len(s)])

\* format(n, "02d")
RECURSIVE DecimalOf(_)
DecimalOf(n) == IF n < 10 THEN <<Digits[n + 1]>> ELSE Append(DecimalOf(n \div 10), Digits[(n % 10) + 1])

\* the number as it stands, without a leading zero
Format02dUnpadded(n) == DecimalOf(n)

\* format(n, "02d"), for n below 100
Format02d(n) == IF n < 10 THEN <<"0">> \o DecimalOf(n) ELSE DecimalOf(n)

\* the dash look-alikes replaced by "-"
DashesToHyphen(s) == [i \in 1..Len(s) |-> IF s[i] \in DashGlyphs THEN "-" ELSE s[i]]

\* re.match(r"^\s*(\d{1,2})(?:[:\.](\d{1,2}))?\s*$", s): the two groups, the
\* second one NoTime when absent; no match is <<>>
HhmmMatch(s) ==
    LET core == Strip(s)
        n    == Len(core)
    IN  IF n \in 1..2 /\ AllDigits(core) THEN <<core, NoTime>>
        ELSE IF \E h \in 1..2 :
                    /\ n - h - 1 \in 1..2
                    /\ core[h + 1] \in {":", "."}
                    /\ AllDigits(SubSeq(core, 1, h))
                    /\ AllDigits(SubSeq(core, h + 2, n))
             THEN LET h == CHOOSE h \in 1..2 :
                             /\ n - h - 1 \in 1..2
                             /\ core[h + 1] \in {":", "."}
                             /\ AllDigits(SubSeq(core, 1, h))
                             /\ AllDigits(SubSeq(core, h + 2, n))
                  IN  <<SubSeq(core, 1, h), SubSeq(core, h + 2, n)>>
             ELSE <<>>

FiveMinuteMarks == {0, 5, 10, 15, 20, 25, 30, 35, 40, 45, 50, 55}

\* minutes that read one digit as tenths of an hour
MinutesOfTenths(mm) ==
    IF mm = NoTime THEN 0
    ELSE IF Len(mm) = 1 THEN IntOf(mm) * 6
    ELSE IntOf(mm)

\* the minutes chosen from the second group
MinutesOf(mm) ==
    IF mm = NoTime THEN 0
    ELSE LET mm_i == IntOf(mm)
         IN  IF Len(mm) = 1 THEN 30
             ELSE LET minutes == IF mm_i \in FiveMinuteMarks THEN mm_i ELSE mm_i
                  IN  IF mm_i = 50 THEN 50 ELSE minutes

_to_hhmm(num_str) ==
    LET s0 == Strip(num_str)
        s  == DashesToHyphen(ReplaceChar(_AR_NUM(s0), "ardecimal", "."))
        m  == HhmmMatch(s)
    IN  IF s0 = <<>> THEN NoTime
        ELSE IF m = <<>> THEN NoTime
        ELSE Format02d(IntOf(m[1])) \o <<":">> \o Format02d(MinutesOf(m[2]))

SpanTokenChars == SeqToSet(Digits) \cup {":", "."}

IndexOfFirst(s, cs) == CHOOSE i \in 1..Len(s) : s[i] \in cs /\ \A j \in 1..(i - 1) : s[j] \notin cs

\* re.match(r"^\s*([0-9:\.]+)\s*-\s*([0-9:\.]+)\s*$", v): the two groups, or <<>>
SpanMatch(v) ==
    LET core == Strip(v)
    IN  IF \A i \in 1..Len(core) : core[i] # "-" THEN <<>>
        ELSE LET d     == IndexOfFirst(core, {"-"})
                 left  == RStrip(SubSeq(core, 1, d - 1))
                 right == LStrip(SubSeq(core, d + 1, Len(core)))
                 isTok(x) == x # <<>> /\ \A i \in 1..Len(x) : x[i] \in SpanTokenChars
             IN  IF isTok(left) /\ isTok(right) THEN <<left, right>> ELSE <<>>

\* the pieces of s between the characters of cs
RECURSIVE SplitAt(_, _, _)
SplitAt(s, cs, cur) ==
    IF s = <<>> THEN <<cur>>
    ELSE IF Head(s) \in cs THEN <<cur>> \o SplitAt(Tail(s), cs, <<>>)
    ELSE SplitAt(Tail(s), cs, Append(cur, Head(s)))

\* re.split(r"\s*[-\u2013\u2014]\s*", v): split at every dash, the
\* whitespace around a dash belonging to the separator
DashSplit(v) ==
    LET raw == SplitAt(v, {"-", "endash", "emdash"}, <<>>)
        n   == Len(raw)
    IN  [i \in 1..n |->
            LET a == IF i > 1 THEN LStrip(raw[i]) ELSE raw[i]
            IN  IF i < n THEN RStrip(a) ELSE a]

_normalize_time_span(val) ==
    IF val = <<>> THEN <<NoTime, NoTime>>
    ELSE LET v == DashesToHyphen(_AR_NUM(val))
             m == SpanMatch(v)
             parts == DashSplit(v)
         IN  IF m = <<>>
             THEN IF Len(parts) = 2 THEN <<_to_hhmm(parts[1]), _to_hhmm(parts[2])>>
                  ELSE <<_to_hhmm(v), NoTime>>
             ELSE <<_to_hhmm(m[1]), _to_hhmm(m[2])>>

---------------------------------------------------------------------------
\* Slots

PyNum(n) == [kind |-> "num", val |-> n]

\* an entry (a dict) with no key set; dict.get gives None for every field
BlankItem == [class_code |-> None, class_name |-> None, location |-> None,
              days_of_week |-> None, start_time |-> None, end_time |-> None,
              time |-> None, time_span |-> None]

\* v or ""
OrEmptyStr(v) == IF Truthy(v) THEN v ELSE PyStr(<<>>)

\* v or []
OrEmptyList(v) == IF Truthy(v) THEN v ELSE PyList(<<>>)

\* str(v), as an f-string formats a value
StrOf(v) ==
    CASE v.kind = "str"  -> v.val
      [] v.kind = "num"  -> DecimalOf(v.val)
      [] v.kind = "none" -> <<"N", "o", "n", "e">>

KeySep == <<":", ":">>

\* f"{code}::{st}::{en}"
MergeKey(code, st, en) == code \o KeySep \o StrOf(st) \o KeySep \o StrOf(en)

\* the name or location kept when a later row brings a value: the newest
\* non-empty one
BackfillNewest(current, incoming) ==
    IF Truthy(incoming) THEN PyStr(Strip(incoming.val)) ELSE current

\* lines 210-213: a field is filled from the row only while it is empty
Backfill(current, incoming) ==
    IF ~Truthy(current) /\ Truthy(incoming) THEN PyStr(Strip(incoming.val)) ELSE current

\* the test of line 189
Incomplete(code, st, en, days) ==
    code = <<>> \/ ~Truthy(st) \/ ~Truthy(en) \/ days = <<>>

HasKey(merged, key) == \E i \in 1..Len(merged) : merged[i].key = key

KeyIndex(merged, key) == CHOOSE i \in 1..Len(merged) : merged[i].key = key

\* for d in days: if d not in acc_days: acc_days.append(d)
RECURSIVE AppendMissing(_, _)
AppendMissing(acc_days, days) ==
    IF days = <<>> THEN acc_days
    ELSE IF Head(days) \in SeqToSet(acc_days) THEN AppendMissing(acc_days, Tail(days))
    ELSE AppendMissing(Append(acc_days, Head(days)), Tail(days))

\* one pass of the loop of _merge_slots; merged is the dict, in insertion order
MergeStep(merged, it) ==
    LET code == Strip(OrEmptyStr(it.class_code).val)
        st   == OrEmptyStr(it.start_time)
        en   == OrEmptyStr(it.end_time)
        days == _normalize_days(OrEmptyList(it.days_of_week))
    IN  IF Incomplete(code, st, en, days) THEN merged
        ELSE
            LET key    == MergeKey(code, st, en)
                fresh  == [BlankItem EXCEPT
                              !.class_code = PyStr(code),
                              !.class_name = PyStr(Strip(OrEmptyStr(it.class_name).val)),
                              !.location = PyStr(Strip(OrEmptyStr(it.location).val)),
                              !.start_time = st,
                              !.end_time = en,
                              !.days_of_week = PyList(<<>>)]
                seeded == IF HasKey(merged, key) THEN merged
                          ELSE Append(merged, [key |-> key, acc |-> fresh])
                i      == KeyIndex(seeded, key)
                acc    == seeded[i].acc
                acc_days == AppendMissing(_normalize_days(acc.days_of_week), days)
                acc2   == [acc EXCEPT
                              !.days_of_week = PyList(CanonicalOrder(acc_days)),
                              !.class_name = Backfill(acc.class_name, it.class_name),
                              !.location = Backfill(acc.location, it.location)]
            IN  [seeded EXCEPT ![i] = [key |-> key, acc |-> acc2]]

RECURSIVE MergeLoop(_, _)
MergeLoop(merged, rest) ==
    IF rest = <<>> THEN merged ELSE MergeLoop(MergeStep(merged, Head(rest)), Tail(rest))

\* list(merged.values())
_merge_slots(its) ==
    LET merged == MergeLoop(<<>>, its)
    IN  [i \in 1..Len(merged) |-> merged[i].acc]

---------------------------------------------------------------------------
\* Day designators: calls of _normalize_days

\* longest list of day tokens in a designator
MaxTokens == 3

TokSun == <<"S", "u", "n">>

TokTueLower == <<"t", "u", "e">>

TokThuUpper == <<"T", "H", "U">>

TokMonday == <<"M", "o", "n", "d", "a", "y">>

TokArSun == <<"alef", "lam", "alef_hamza", "hah", "dal">>

TokArFri == <<"rlm", "jeem", "meem", "ain", "teh_marbuta">>

TokUnknown == <<"z", "z">>

TokEmpty == <<>>

DayTokens == {TokSun, TokTueLower, TokThuUpper, TokMonday, TokArSun, TokArFri, TokUnknown, TokEmpty}

DaySeparators == {<<",">>, <<",", " ">>, <<"arcomma">>, <<"|">>}

SeqsUpTo(S, n) == UNION {[1..k -> S] : k \in 0..n}

\* the text encodings of a token list: joined by a separator, bare or in
\* curly braces
DayString(toks, sep, braces) ==
    IF braces THEN <<"{">> \o Join(toks, sep) \o <<"}">> ELSE Join(toks, sep)

DayValues ==
    {PyList(l) : l \in SeqsUpTo(DayTokens, MaxTokens)}
    \cup {PyStr(DayString(l, sep, b)) :
            l \in SeqsUpTo(DayTokens, MaxTokens), sep \in DaySeparators, b \in BOOLEAN}
    \cup {None}

IdleDays ==
    /\ dayInput = None
    /\ dayValue = None
    /\ dayResult = NotCalled
    /\ dayPrev = NotCalled

IdleTime ==
    /\ timeArg = <<>>
    /\ hhmmResult = NotCalled
    /\ spanResult = NotCalled

IdleMerge ==
    /\ items = <<>>
    /\ mergeResult = NotCalled

IdleDb ==
    /\ store = <<>>
    /\ secs = FALSE
    /\ call = NotCalled
    /\ calls = 0

IdleKey ==
    /\ keyArgs = <<>>
    /\ keyResult = NotCalled

IdleErr ==
    /\ raised = NoError

IdleProcs ==
    /\ procs = <<>>
    /\ startStore = <<>>

IdleToken ==
    /\ tokArg = <<>>
    /\ tokResult = NotCalled

IdleEntry ==
    /\ rawEntry = None
    /\ geminiSlot = NotCalled
    /\ upsertSlot = NotCalled

IdleFix ==
    /\ fixInput = <<>>
    /\ fixOnce = NotCalled
    /\ fixTwice = NotCalled

InitDays ==
    /\ dayInput \in DayValues
    /\ dayValue = dayInput
    /\ dayResult = NotCalled
    /\ dayPrev = NotCalled
    /\ IdleTime
    /\ IdleMerge
    /\ IdleDb
    /\ IdleKey
    /\ IdleErr
    /\ IdleProcs
    /\ IdleToken
    /\ IdleEntry
    /\ IdleFix

\* days = _normalize_days(value)
NormalizeDays ==
    /\ dayResult = NotCalled
    /\ dayResult' = PyList(_normalize_days(dayValue))
    /\ UNCHANGED <<dayInput, dayValue, dayPrev, timeVars, mergeVars, dbVars, keyVars, errVars, procVars, tokenVars, entryVars, fixVars>>

\* the output list passed in again, as _merge_slots and
\* upsert_classes_from_parsed do with already normalized items
NormalizeDaysAgain ==
    /\ dayResult # NotCalled
    /\ dayPrev = NotCalled
    /\ dayValue' = dayResult
    /\ dayPrev' = dayResult
    /\ dayResult' = PyList(_normalize_days(dayResult))
    /\ UNCHANGED <<dayInput, timeVars, mergeVars, dbVars, keyVars, errVars, procVars, tokenVars, entryVars, fixVars>>

NextDays == NormalizeDays \/ NormalizeDaysAgain

SpecDays == InitDays /\ [][NextDays]_vars

---------------------------------------------------------------------------
\* Time texts: calls of _to_hhmm and _normalize_time_span

TimeDigits == {"0", "1", "3", "5", "8", "9"}

DigitStrings(lo, hi) == UNION {[1..k -> TimeDigits] : k \in lo..hi}

\* hour, separator, minutes: the shapes the time pattern is written for
ShapedTimes ==
    DigitStrings(1, 2)
    \cup {h \o <<sep>> \o m : h \in DigitStrings(1, 2), sep \in {":", "."}, m \in DigitStrings(0, 2)}

T0800 == <<"0", "8", ":", "0", "0">>

T8dot0 == <<"8", ".", "0">>

T9dot50 == <<"9", ".", "5", "0">>

T9dot5 == <<"9", ".", "5">>

T0830 == <<"0", "8", ":", "3", "0">>

T0950 == <<"0", "9", ":", "5", "0">>

T0930 == <<"0", "9", ":", "3", "0">>

\* texts outside the pattern, or needing the glyph clean-up
OddTimes == {
    <<>>,
    <<" ", "8", ".", "0", " ">>,
    <<"ar8", "ardecimal", "ar5", "ar0">>,
    <<"1", "2", "3">>,
    <<"8", ".", "1", "2", "3">>,
    <<"8", "-", "5", "0">>,
    <<"T", "B", "A">>,
    <<"8", " ", "9">> }

SpanSides == {T8dot0, T9dot50, T0800, <<"9">>, <<"ar8">>, <<"8", ".">>, <<"T", "B", "A">>, <<>>}

SpanDashes == {"-", "figdash", "endash", "emdash"}

SpanPadding == {<<>>, <<" ">>}

SpanText(a, pad, dash, b) == a \o pad \o <<dash>> \o pad \o b

SpanTimes ==
    {SpanText(a, pad, dash, b) : a \in SpanSides, b \in SpanSides, pad \in SpanPadding, dash \in SpanDashes}
    \cup {a \o <<" ">> \o b : a \in SpanSides, b \in SpanSides}
    \cup {a \o <<"-", " ", "-">> \o b : a \in SpanSides, b \in SpanSides}

TimeTexts == ShapedTimes \cup OddTimes \cup SpanTimes

InitTime ==
    /\ timeArg \in TimeTexts
    /\ hhmmResult = NotCalled
    /\ spanResult = NotCalled
    /\ IdleDays
    /\ IdleMerge
    /\ IdleDb
    /\ IdleKey
    /\ IdleErr
    /\ IdleProcs
    /\ IdleToken
    /\ IdleEntry
    /\ IdleFix

\* _to_hhmm(timeArg)
ToHhmm ==
    /\ hhmmResult = NotCalled
    /\ hhmmResult' = PyStr(_to_hhmm(timeArg))
    /\ UNCHANGED <<timeArg, spanResult, dayVars, mergeVars, dbVars, keyVars, errVars, procVars, tokenVars, entryVars, fixVars>>

\* _normalize_time_span(timeArg)
NormalizeTimeSpan ==
    /\ spanResult = NotCalled
    /\ spanResult' = PyList(_normalize_time_span(timeArg))
    /\ UNCHANGED <<timeArg, hhmmResult, dayVars, mergeVars, dbVars, keyVars, errVars, procVars, tokenVars, entryVars, fixVars>>

NextTime == ToHhmm \/ NormalizeTimeSpan

SpecTime == InitTime /\ [][NextTime]_vars

\* C7: _to_hhmm returns "08:00" for "08:00", "08:00" for "8.0", "09:50" for
\* "9.50" and "09:30" for "9.5".
ToHhmmCleanInputs ==
    hhmmResult # NotCalled =>
        /\ timeArg = T0800 => hhmmResult.val = T0800
        /\ timeArg = T8dot0 => hhmmResult.val = T0800
        /\ timeArg = T9dot50 => hhmmResult.val = T0950
        /\ timeArg = T9dot5 => hhmmResult.val = T0930

\* the same span with another dash glyph between its two sides
OtherGlyphs(text) ==
    {[i \in 1..Len(text) |-> IF text[i] \in SpanDashes THEN g ELSE text[i]] : g \in SpanDashes}

\* C8: "8.0" and "9.50" joined by an en dash or by a hyphen both parse to
\* ("08:00", "09:50"), and two spans that differ only in the dash glyph
\* (hyphen, en dash, em dash, figure dash) parse to the same pair.
SpanMixedGlyphs ==
    spanResult # NotCalled =>
        /\ timeArg \in {SpanText(T8dot0, <<>>, "endash", T9dot50), SpanText(T8dot0, <<>>, "-", T9dot50)}
                => spanResult.val = <<T0800, T0950>>
        /\ \A other \in OtherGlyphs(timeArg) : _normalize_time_span(other) = spanResult.val

---------------------------------------------------------------------------
\* Rows: calls of _merge_slots

\* longest list of rows handed to _merge_slots
MaxItems == 2

CodeA == <<"A">>

CodeAColon == <<"A", ":">>

CodeASpaced == <<" ", "A">>

St8 == PyStr(<<"8">>)

StColon8 == PyStr(<<":", "8">>)

En9 == PyStr(<<"9">>)

NameN1 == PyStr(<<"N", "1">>)

NameN2 == PyStr(<<"N", "2", " ">>)

NameBlank == PyStr(<<" ">>)

LocL1 == PyStr(<<"L", "1">>)

LocL2 == PyStr(<<"L", "2">>)

DaysSun == PyList(<<TokSun>>)

DaysTue == PyList(<<TokTueLower>>)

DaysUnknown == PyList(<<TokUnknown>>)

\* rows that differ in what identifies a slot
KeyRows ==
    {[BlankItem EXCEPT !.class_code = PyStr(c), !.start_time = st, !.end_time = En9,
                       !.days_of_week = d, !.class_name = n] :
        c \in {CodeA, CodeAColon, CodeASpaced, <<>>}, st \in {St8, StColon8},
        d \in {DaysSun, DaysTue, DaysUnknown}, n \in {None, NameN1}}

\* rows of one slot that differ in name and location
NameRows ==
    {[BlankItem EXCEPT !.class_code = PyStr(CodeA), !.start_time = St8, !.end_time = En9,
                       !.days_of_week = d, !.class_name = n, !.location = l] :
        d \in {DaysSun, DaysTue}, n \in {None, NameN1, NameN2, NameBlank},
        l \in {None, LocL1, LocL2}}

\* rows with a key missing
PartialRows == {
    [BlankItem EXCEPT !.class_code = PyStr(CodeA), !.end_time = En9, !.days_of_week = DaysSun],
    [BlankItem EXCEPT !.class_code = PyStr(CodeA), !.start_time = St8, !.days_of_week = DaysSun],
    [BlankItem EXCEPT !.class_code = PyStr(CodeA), !.start_time = St8, !.end_time = En9],
    [BlankItem EXCEPT !.start_time = St8, !.end_time = En9, !.days_of_week = DaysSun] }

MergeRows == KeyRows \cup NameRows \cup PartialRows

InitMerge ==
    /\ items \in SeqsUpTo(MergeRows, MaxItems)
    /\ mergeResult = NotCalled
    /\ IdleDays
    /\ IdleTime
    /\ IdleDb
    /\ IdleKey
    /\ IdleErr
    /\ IdleProcs
    /\ IdleToken
    /\ IdleEntry
    /\ IdleFix

\* _merge_slots(items)
MergeSlots ==
    /\ mergeResult = NotCalled
    /\ mergeResult' = PyList(_merge_slots(items))
    /\ UNCHANGED <<items, dayVars, timeVars, dbVars, keyVars, errVars, procVars, tokenVars, entryVars, fixVars>>

\* the merged list handed to _merge_slots again
MergeSlotsAgain ==
    /\ mergeResult # NotCalled
    /\ items # mergeResult.val
    /\ items' = mergeResult.val
    /\ mergeResult' = PyList(_merge_slots(mergeResult.val))
    /\ UNCHANGED <<dayVars, timeVars, dbVars, keyVars, errVars, procVars, tokenVars, entryVars, fixVars>>

NextMerge == MergeSlots \/ MergeSlotsAgain

SpecMerge == InitMerge /\ [][NextMerge]_vars

ItemCode(it) == Strip(OrEmptyStr(it.class_code).val)

ItemDays(it) == _normalize_days(OrEmptyList(it.days_of_week))

\* a row with a code, a start, an end and at least one recognised day
CompleteRow(it) ==
    ItemCode(it) # <<>> /\ Truthy(it.start_time) /\ Truthy(it.end_time) /\ ItemDays(it) # <<>>

Triple(it) == <<ItemCode(it), it.start_time, it.end_time>>

CompleteIdx(its) == {i \in 1..Len(its) : CompleteRow(its[i])}

RowsOfTriple(its, t) == {i \in CompleteIdx(its) : Triple(its[i]) = t}

Triples(its) == {Triple(its[i]) : i \in CompleteIdx(its)}

DaysOfRows(its, idx) == UNION {SeqToSet(ItemDays(its[i])) : i \in idx}

InWeekOrder(daySet) == SelectSeq(_DAY_ORDER, LAMBDA d : d \in daySet)

Min(S) == CHOOSE x \in S : \A y \in S : x <= y

FieldText(it, f) == Strip(OrEmptyStr(it[f]).val)

\* the trimmed value of field f in the first of the rows idx that has one
FirstNonEmpty(its, idx, f) ==
    LET filled == {i \in idx : FieldText(its[i], f) # <<>>}
    IN  IF filled = {} THEN <<>> ELSE FieldText(its[Min(filled)], f)

\* C1: _merge_slots outputs exactly one slot for each distinct (stripped
\* class_code, start_time, end_time) triple among the complete rows, and no
\* other slot; the slot's days are the union of the normalized days of the
\* complete rows with that triple, in Sun..Sat order.
OneSlotPerTriple ==
    mergeResult # NotCalled =>
        LET out == mergeResult.val
        IN  /\ \A t \in Triples(items) :
                   Cardinality({i \in 1..Len(out) : Triple(out[i]) = t}) = 1
            /\ \A i \in 1..Len(out) :
                   /\ Triple(out[i]) \in Triples(items)
                   /\ out[i].days_of_week.val
                        = InWeekOrder(DaysOfRows(items, RowsOfTriple(items, Triple(out[i]))))

\* C2: the class_name of a merged slot, and independently its location, is
\* the first non-empty (trimmed) value in input order among the complete rows
\* with the slot's (class_code, start_time, end_time); it is empty only if
\* all of them have it empty.
FirstNonEmptyWins ==
    mergeResult # NotCalled =>
        \A i \in 1..Len(mergeResult.val) :
            LET slot == mergeResult.val[i]
                rows == RowsOfTriple(items, Triple(slot))
            IN  /\ slot.class_name.val = FirstNonEmpty(items, rows, "class_name")
                /\ slot.location.val = FirstNonEmpty(items, rows, "location")

\* the rows folded into the slot of row it: those with its merge key
RowKey(it) == MergeKey(ItemCode(it), it.start_time, it.end_time)

RowsOfKey(its, key) == {i \in CompleteIdx(its) : RowKey(its[i]) = key}

SlotOfKey(out, key) == out[CHOOSE i \in 1..Len(out) : RowKey(out[i]) = key]

\* two rows of one slot that carry different names (f = "class_name") or locations
Rivals(its, i, j, f) ==
    /\ i < j
    /\ CompleteRow(its[i]) /\ CompleteRow(its[j])
    /\ Triple(its[i]) = Triple(its[j])
    /\ ItemDays(its[i]) = ItemDays(its[j])
    /\ FieldText(its[i], f) # <<>> /\ FieldText(its[j], f) # <<>>
    /\ FieldText(its[i], f) # FieldText(its[j], f)

\* C3 as stated: when two rows with the same class code, start, end and days
\* carry different non-empty names (or locations), the merged slot carries
\* the later-seen one.
LaterNameWins ==
    mergeResult # NotCalled =>
        \A i, j \in 1..Len(items) : \A f \in {"class_name", "location"} :
            Rivals(items, i, j, f) =>
                SlotOfKey(mergeResult.val, RowKey(items[j]))[f].val = FieldText(items[j], f)

\* C3 amended: the merged slot carries the first-seen non-empty name (or
\* location) among the rows merged into it, which comes from the earlier of
\* the two rows or from a row before it, never from the later row.
EarlierNameWins ==
    mergeResult # NotCalled =>
        \A i, j \in 1..Len(items) : \A f \in {"class_name", "location"} :
            Rivals(items, i, j, f) =>
                LET rows   == RowsOfKey(items, RowKey(items[j]))
                    filled == {k \in rows : FieldText(items[k], f) # <<>>}
                IN  /\ SlotOfKey(mergeResult.val, RowKey(items[j]))[f].val
                            = FirstNonEmpty(items, rows, f)
                    /\ Min(filled) <= i

EarlierNameWinsWitness ==
    /\ mergeResult # NotCalled
    /\ Len(items) = 2
    /\ Rivals(items, 1, 2, "class_name")
    /\ Len(mergeResult.val) = 1
    /\ mergeResult.val[1].class_name = NameN1
    /\ items[2].class_name = NameN2

---------------------------------------------------------------------------
\* The classes table and the calls of upsert_classes_from_parsed

\* longest list of entries in a payload
MaxBatch == 2

\* number of calls in a run
MaxCalls == 1

\* the user schedule_apply works for, and another user of the table
ActiveUser == "u1"

OtherUser == "u2"

CodeB == <<" ", "B", "ar1">>

TokTueSunList == PyList(<<TokTueLower, TokSun>>)

DaysSunText == PyStr(<<"S", "u", "n">>)

TimeTBA == PyStr(<<"T", "B", "A">>)

SpanText0800to950 == PyStr(SpanText(T0800, <<>>, "endash", T9dot50))

\* entries that normalize to a slot
GoodItems == {
    [BlankItem EXCEPT !.class_code = PyStr(CodeA), !.days_of_week = TokTueSunList,
                      !.start_time = PyStr(T0800), !.end_time = PyStr(T9dot50)],
    [BlankItem EXCEPT !.class_code = PyStr(CodeA), !.days_of_week = DaysSunText,
                      !.time = SpanText0800to950, !.class_name = NameN1],
    [BlankItem EXCEPT !.class_code = PyStr(CodeB), !.days_of_week = DaysSun,
                      !.start_time = PyStr(T0800), !.end_time = PyStr(T9dot50)] }

\* entries with no code, no recognised day, or a missing or unparseable time
BadItems == {
    [BlankItem EXCEPT !.days_of_week = DaysSun,
                      !.start_time = PyStr(T0800), !.end_time = PyStr(T9dot50)],
    [BlankItem EXCEPT !.class_code = PyStr(CodeA), !.days_of_week = DaysUnknown,
                      !.start_time = PyStr(T0800), !.end_time = PyStr(T9dot50)],
    [BlankItem EXCEPT !.class_code = PyStr(CodeA), !.days_of_week = DaysSun,
                      !.start_time = TimeTBA, !.end_time = PyStr(T9dot50), !.class_name = NameN2],
    [BlankItem EXCEPT !.class_code = PyStr(CodeA), !.days_of_week = DaysSun,
                      !.start_time = PyStr(T0800)],
    [BlankItem EXCEPT !.class_code = PyStr(CodeA), !.days_of_week = DaysSun,
                      !.start_time = TimeTBA, !.end_time = PyNum(9)] }

UpsertItems == GoodItems \cup BadItems

\* a complete entry whose class_name is a number, and one whose class_code is
IllTypedName ==
    [BlankItem EXCEPT !.class_code = PyStr(CodeA), !.days_of_week = DaysSun,
                      !.start_time = PyStr(T0800), !.end_time = PyStr(T9dot50),
                      !.class_name = PyNum(5)]

IllTypedCode ==
    [BlankItem EXCEPT !.class_code = PyNum(5), !.days_of_week = DaysSun,
                      !.start_time = PyStr(T0800), !.end_time = PyStr(T9dot50)]

\* payloads with an entry of an unexpected type, alone or after a usable entry
IllTypedPayloads ==
    {[normalized |-> None, classes |-> PyList(l)] :
        l \in {<<IllTypedName>>, <<IllTypedCode>>} \cup {<<g, IllTypedName>> : g \in GoodItems}}

Payloads ==
    {[normalized |-> None, classes |-> PyList(l)] : l \in SeqsUpTo(UpsertItems, MaxBatch)}
    \cup {[normalized |-> PyList(l), classes |-> None] : l \in SeqsUpTo(GoodItems, 1)}
    \cup {[normalized |-> None, classes |-> None]}
    \cup IllTypedPayloads

\* upsert_classes_from_parsed

\* Python's None as a value, for a result of _to_hhmm
OptStr(x) == IF x = NoTime THEN None ELSE PyStr(x)

\* lines 313-317: the list under "normalized", else the one under "classes"
PayloadItems(parsed_json) ==
    LET first == parsed_json.normalized
        its   == IF Truthy(first) THEN first ELSE OrEmptyList(parsed_json.classes)
    IN  IF IsList(its) THEN its.val ELSE <<>>

\* lines 326-332: start and end of an entry
ItemTimes(it) ==
    IF IsStr(it.start_time) /\ IsStr(it.end_time)
    THEN <<OptStr(_to_hhmm(it.start_time.val)), OptStr(_to_hhmm(it.end_time.val))>>
    ELSE IF IsStr(it.time)
         THEN LET span == _normalize_time_span(it.time.val)
              IN  <<OptStr(span[1]), OptStr(span[2])>>
         ELSE <<it.start_time, it.end_time>>

\* the test of line 333
Keeps(code, st, en, days) == code # <<>> /\ Truthy(st) /\ Truthy(en) /\ days # <<>>

\* lines 322-335: the normalized entry, or nothing
NormItem(it) ==
    LET code == Strip(_AR_NUM(OrEmptyStr(it.class_code).val))
        name == Strip(OrEmptyStr(it.class_name).val)
        loc  == Strip(OrEmptyStr(it.location).val)
        days == _normalize_days(it.days_of_week)
        t    == ItemTimes(it)
    IN  IF Keeps(code, t[1], t[2], days)
        THEN <<[BlankItem EXCEPT !.class_code = PyStr(code), !.class_name = PyStr(name),
                                 !.location = PyStr(loc), !.start_time = t[1],
                                 !.end_time = t[2], !.days_of_week = PyList(days)]>>
        ELSE <<>>

RECURSIVE NormAll(_)
NormAll(its) == IF its = <<>> THEN <<>> ELSE NormItem(Head(its)) \o NormAll(Tail(its))

\* gemini_extract_schedule, the per-item normalization of lines 272-297

\* lines 279-280: a missing or empty start or end and a text under "time"
\* take both from the combined string
GeminiFromTime(item) ==
    IF (~Truthy(item.start_time) \/ ~Truthy(item.end_time)) /\ IsStr(item.time)
    THEN LET span == _normalize_time_span(item.time.val)
         IN  <<OptStr(span[1]), OptStr(span[2])>>
    ELSE <<item.start_time, item.end_time>>

\* lines 281-287: two texts go through _to_hhmm, anything else is replaced
\* by the span under "time_span" when that is a text
GeminiTimes(item, t) ==
    IF IsStr(t[1]) /\ IsStr(t[2])
    THEN <<OptStr(_to_hhmm(t[1].val)), OptStr(_to_hhmm(t[2].val))>>
    ELSE IF IsStr(item.time_span)
         THEN LET span == _normalize_time_span(item.time_span.val)
              IN  <<OptStr(span[1]), OptStr(span[2])>>
         ELSE t

\* lines 273-296: the normalized entry, or nothing
GeminiItem(item) ==
    LET code == Strip(_AR_NUM(OrEmptyStr(item.class_code).val))
        name == Strip(OrEmptyStr(item.class_name).val)
        loc  == Strip(OrEmptyStr(item.location).val)
        days == _normalize_days(item.days_of_week)
        t    == GeminiTimes(item, GeminiFromTime(item))
    IN  IF Truthy(t[1]) /\ Truthy(t[2]) /\ code # <<>> /\ days # <<>>
        THEN <<[BlankItem EXCEPT !.class_code = PyStr(code), !.class_name = PyStr(name),
                                 !.location = PyStr(loc), !.days_of_week = PyList(days),
                                 !.start_time = t[1], !.end_time = t[2]]>>
        ELSE <<>>

RECURSIVE GeminiAll(_)
GeminiAll(its) == IF its = <<>> THEN <<>> ELSE GeminiItem(Head(its)) \o GeminiAll(Tail(its))

\* lines 271-300: the "normalized" list made of a parsed reply that is a dict
GeminiNormalized(parsed) == _merge_slots(GeminiAll(OrEmptyList(parsed.classes).val))

\* a key that keeps the days in the order given
CanonSlotKeyDaysAsGiven(code, start, end, days) ==
    Strip(code) \o KeySep \o StrOf(start) \o KeySep \o StrOf(end) \o KeySep
        \o Join(SelectSeq(days, LAMBDA x : x \in DayCodes), <<"|">>)

\* _canon_slot_key: code is text, start and end are values put in an f-string
_canon_slot_key(code, start, end, days) ==
    LET d == SelectSeq(_DAY_ORDER, LAMBDA x : x \in SeqToSet(days))
    IN  Strip(code) \o KeySep \o StrOf(start) \o KeySep \o StrOf(end) \o KeySep \o Join(d, <<"|">>)

\* a row of the classes table
BlankRow == [user_id |-> "", active |-> TRUE, class_code |-> None, class_name |-> None,
             location |-> None, days_of_week |-> None, start_time |-> None, end_time |-> None]

\* a value of a time column as the table returns it: an HH:MM time comes
\* back as it is or as HH:MM:SS, any other value as it is
ReadTime(v, withSecs) ==
    IF withSecs /\ IsStr(v) /\ Len(v.val) = 5 THEN PyStr(v.val \o <<":", "0", "0">>) ELSE v

\* a read that returns the active rows of every user
GetClassesOfAllUsers(rows, withSecs, user_id) ==
    LET mine == SelectSeq(rows, LAMBDA r : r.active)
    IN  [i \in 1..Len(mine) |->
            [mine[i] EXCEPT !.start_time = ReadTime(@, withSecs), !.end_time = ReadTime(@, withSecs)]]

\* db.get_classes_for_user: the active rows of the user (the order by
\* start_time is not modelled, the caller only collects their keys)
get_classes_for_user(rows, withSecs, user_id) ==
    LET mine == SelectSeq(rows, LAMBDA r : r.user_id = user_id /\ r.active)
    IN  [i \in 1..Len(mine) |->
            [mine[i] EXCEPT !.start_time = ReadTime(@, withSecs), !.end_time = ReadTime(@, withSecs)]]

\* a value that is not text where the code calls a str method on it
IllTyped(v) == Truthy(v) /\ ~IsStr(v)

\* lines 322-324: translate or strip on a class_code, class_name or location
\* that is truthy and not text raises AttributeError
NormItemRaises(it) ==
    IllTyped(it.class_code) \/ IllTyped(it.class_name) \/ IllTyped(it.location)

\* lines 320-335 raise
PayloadRaises(parsed_json) ==
    LET its == PayloadItems(parsed_json)
    IN  \E i \in 1..Len(its) : NormItemRaises(its[i])

\* lines 344-345 and 177: the class_code column of a stored row goes to
\* code.strip() as it is, a null or a number raises AttributeError
ExistingKeyRaises(ex) == ~IsStr(ex.class_code)

\* lines 344-349: the key of a stored row
ExistingKey(ex) ==
    _canon_slot_key(ex.class_code.val,
                    PyStr(TakeFirst(StrOf(ex.start_time), 5)),
                    PyStr(TakeFirst(StrOf(ex.end_time), 5)),
                    _normalize_days(OrEmptyList(ex.days_of_week)))

\* line 358: the key of a merged slot
SlotKey(it) == _canon_slot_key(it.class_code.val, it.start_time, it.end_time, it.days_of_week.val)

\* lines 363-372
InsertPayload(user_id, it) ==
    [BlankRow EXCEPT !.user_id = user_id, !.class_code = it.class_code,
                     !.class_name = it.class_name, !.location = it.location,
                     !.days_of_week = it.days_of_week, !.start_time = it.start_time,
                     !.end_time = it.end_time, !.active = TRUE]

\* a loop without the continue of line 362: a duplicate is counted as
\* skipped and inserted all the same
RECURSIVE UpsertLoopNoContinue(_, _, _)
UpsertLoopNoContinue(user_id, norm, st) ==
    IF norm = <<>> THEN st
    ELSE LET it   == Head(norm)
             key  == SlotKey(it)
             st1  == IF key \in st.seen THEN [st EXCEPT !.skipped = @ + 1] ELSE st
         IN  UpsertLoopNoContinue(user_id, Tail(norm),
                 [st1 EXCEPT !.rows = Append(@, InsertPayload(user_id, it)),
                             !.seen = @ \cup {key},
                             !.inserted = @ + 1])

\* lines 357-375: st is the running seen set, the rows inserted and the counters
RECURSIVE UpsertLoop(_, _, _)
UpsertLoop(user_id, norm, st) ==
    IF norm = <<>> THEN st
    ELSE LET it  == Head(norm)
             key == SlotKey(it)
         IN  IF key \in st.seen
             THEN UpsertLoop(user_id, Tail(norm), [st EXCEPT !.skipped = @ + 1])
             ELSE UpsertLoop(user_id, Tail(norm),
                     [st EXCEPT !.rows = Append(@, InsertPayload(user_id, it)),
                                !.seen = @ \cup {key},
                                !.inserted = @ + 1])

\* lines 313-338: the entries of the payload, normalized and merged
NormalizedPayload(parsed_json) == _merge_slots(NormAll(PayloadItems(parsed_json)))

\* NormalizedPayload, tabulated once for the payloads of the model
NormTable == [p \in Payloads |-> IF PayloadRaises(p) THEN <<>> ELSE NormalizedPayload(p)]

\* a result that counts every duplicate as an update
UpsertResultCountingUpdates(rows, user_id, parsed_json, norm, existing, done) ==
    [kind |-> "upsert", before |-> rows,
     user_id |-> user_id, parsed_json |-> parsed_json, norm |-> norm,
     existing |-> existing, inserted |-> done.rows,
     stats |-> [inserted |-> done.inserted, skipped |-> done.skipped,
                updated |-> done.skipped]]

\* line 377 and the effects of the call: what it read, merged, inserted and
\* returned; done is the state of the loop at its end
UpsertResult(rows, user_id, parsed_json, norm, existing, done) ==
    [kind |-> "upsert", before |-> rows,
     user_id |-> user_id, parsed_json |-> parsed_json, norm |-> norm,
     existing |-> existing, inserted |-> done.rows,
     stats |-> [inserted |-> done.inserted, skipped |-> done.skipped, updated |-> 0]]

\* lines 341-375: the keys of the stored rows, then the loop over the merged slots
UpsertMerged(rows, user_id, parsed_json, norm, existing) ==
    UpsertResult(rows, user_id, parsed_json, norm, existing,
        UpsertLoop(user_id, norm,
            [seen |-> {ExistingKey(existing[i]) : i \in 1..Len(existing)},
             rows |-> <<>>, inserted |-> 0, skipped |-> 0]))

\* the call raises before line 352, having written nothing
UpsertRaises(rows, withSecs, user_id, parsed_json) ==
    \/ PayloadRaises(parsed_json)
    \/ \E i \in 1..Len(rows) :
           rows[i].user_id = user_id /\ rows[i].active /\ ExistingKeyRaises(rows[i])

\* upsert_classes_from_parsed against the rows of the table, when it returns
upsert_classes_from_parsed(rows, withSecs, user_id, parsed_json) ==
    UpsertMerged(rows, user_id, parsed_json, NormTable[parsed_json],
                 get_classes_for_user(rows, withSecs, user_id))

\* a stored slot of a user, with its days in the given representation
StoredRow(user_id, days) ==
    [BlankRow EXCEPT !.user_id = user_id, !.class_code = PyStr(CodeA), !.class_name = PyStr(<<>>),
                     !.location = PyStr(<<>>), !.days_of_week = days,
                     !.start_time = PyStr(T0800), !.end_time = PyStr(T0950)]

SunTueList == PyList(<<_DAY_ORDER[1], _DAY_ORDER[3]>>)

SunTueBraced == PyStr(<<"{", "S", "u", "n", ",", "T", "u", "e", "}">>)

SunTuePlain == PyStr(<<"S", "u", "n", ",", "T", "u", "e">>)

\* the table before the run: empty, or one row stored as a text[] value, as
\* "{Sun,Tue}" text or as "Sun,Tue" text (db.get_classes_for_day), with a
\* null class_code, or not active
InitialStores == {
    <<>>,
    <<StoredRow(ActiveUser, SunTueList)>>,
    <<StoredRow(ActiveUser, SunTueBraced)>>,
    <<StoredRow(ActiveUser, SunTuePlain)>>,
    <<StoredRow(OtherUser, SunTueList)>>,
    <<[StoredRow(ActiveUser, SunTueList) EXCEPT !.class_code = None]>>,
    <<[StoredRow(ActiveUser, SunTueList) EXCEPT !.active = FALSE]>> }

Init ==
    /\ store \in InitialStores
    /\ secs \in BOOLEAN
    /\ call = NotCalled
    /\ calls = 0
    /\ IdleDays
    /\ IdleTime
    /\ IdleMerge
    /\ IdleKey
    /\ IdleErr
    /\ IdleProcs
    /\ IdleToken
    /\ IdleEntry
    /\ IdleFix

\* upsert_classes_from_parsed(user_id, parsed_json) for some payload, with a
\* service client (without one the call raises at line 355 and writes
\* nothing): it raises on a value of an unexpected type, or inserts and counts
Upsert(user_id) ==
    /\ call = NotCalled
    /\ calls < MaxCalls
    /\ \E parsed_json \in Payloads :
           IF UpsertRaises(store, secs, user_id, parsed_json)
           THEN /\ raised' = "AttributeError"
                /\ UNCHANGED <<call, store, procVars, tokenVars, entryVars, fixVars>>
           ELSE /\ raised' = NoError
                /\ call' = upsert_classes_from_parsed(store, secs, user_id, parsed_json)
                /\ store' = store \o call'.inserted
    /\ calls' = calls + 1
    /\ UNCHANGED <<secs, dayVars, timeVars, mergeVars, keyVars, procVars, tokenVars, entryVars, fixVars>>

\* the call returns its counters to schedule_apply
Return ==
    /\ call # NotCalled
    /\ call' = NotCalled
    /\ UNCHANGED <<store, secs, calls, dayVars, timeVars, mergeVars, keyVars, errVars, procVars, tokenVars, entryVars, fixVars>>

Next ==
    \/ Upsert(ActiveUser)
    \/ Return

Spec == Init /\ [][Next]_vars

\* slot i of the merged list was inserted by the call c
WasInserted(c, i) ==
    \E k \in 1..Len(c.inserted) : c.inserted[k] = InsertPayload(c.user_id, c.norm[i])

ExistingKeys(c) == {ExistingKey(c.existing[k]) : k \in 1..Len(c.existing)}

\* C4: every merged slot is classified exactly once: skipped if and only if
\* its canonical key is the key of a stored record or of a slot inserted
\* earlier in the batch, inserted otherwise; inserted + skipped is the number
\* of merged slots, and a slot whose key is stored gives inserted = 0,
\* skipped = 1.
ClassifiedOnce ==
    call # NotCalled =>
        LET n == Len(call.norm)
            dup(i) == \/ SlotKey(call.norm[i]) \in ExistingKeys(call)
                      \/ \E j \in 1..(i - 1) :
                            WasInserted(call, j) /\ SlotKey(call.norm[j]) = SlotKey(call.norm[i])
        IN  /\ call.stats.inserted + call.stats.skipped = n
            /\ call.stats.inserted = Len(call.inserted)
            /\ call.stats.skipped = Cardinality({i \in 1..n : dup(i)})
            /\ \A i \in 1..n :
                   /\ WasInserted(call, i) <=> ~dup(i)
                   /\ Cardinality({k \in 1..Len(call.inserted) :
                          call.inserted[k] = InsertPayload(call.user_id, call.norm[i])}) <= 1
            /\ store = call.before \o call.inserted
            /\ (n = 1 /\ SlotKey(call.norm[1]) \in ExistingKeys(call))
                   => call.stats.inserted = 0 /\ call.stats.skipped = 1

ClassifiedOnceWitness ==
    /\ call # NotCalled
    /\ Len(call.norm) = 2
    /\ call.stats = [inserted |-> 1, skipped |-> 1, updated |-> 0]
    /\ call.existing # <<>>

\* the non-empty sets of day codes, each as its list in week order
WeekLists ==
    {SelectSeq(_DAY_ORDER, LAMBDA d : d \in S) : S \in (SUBSET DayCodes) \ {{}}}

\* a set of day codes as array text: {Sun,Tue,Thu}
BracedText(days) == PyStr(<<"{">> \o Join(days, <<",">>) \o <<"}">>)

\* C5: a stored record whose days arrive as curly-brace text has the key of
\* the same record with its days as a native list, and a merged slot with
\* that key is classified as a duplicate.
BracedDaysSameKey ==
    call # NotCalled =>
        \A k \in 1..Len(call.existing) : \A days \in WeekLists :
            LET ex == call.existing[k]
                asList == [ex EXCEPT !.days_of_week = PyList(days)]
            IN  ex.days_of_week = BracedText(days) =>
                    /\ ExistingKey(ex) = ExistingKey(asList)
                    /\ \A i \in 1..Len(call.norm) :
                           SlotKey(call.norm[i]) = ExistingKey(asList) => ~WasInserted(call, i)

\* an entry with no class code, no recognised day, or a start or end that is
\* missing or is text _to_hhmm cannot read
Unusable(it) ==
    LET t == ItemTimes(it)
    IN  \/ Strip(_AR_NUM(OrEmptyStr(it.class_code).val)) = <<>>
        \/ _normalize_days(it.days_of_week) = <<>>
        \/ \E k \in 1..2 : \/ ~Truthy(t[k])
                            \/ (IsStr(t[k]) /\ _to_hhmm(t[k].val) = NoTime)

\* the payload without its unusable entries
WithoutUnusable(parsed_json) ==
    [normalized |-> None,
     classes |-> PyList(SelectSeq(PayloadItems(parsed_json), LAMBDA it : ~Unusable(it)))]

\* C6: an entry with an empty class code, no recognised day, or a missing or
\* unparseable start or end contributes nothing: the merged slots, the rows
\* inserted and the counters are those of the payload without such entries.
UnusableDropped ==
    call # NotCalled =>
        LET clean == upsert_classes_from_parsed(call.before, secs, call.user_id,
                                                WithoutUnusable(call.parsed_json))
        IN  /\ call.norm = clean.norm
            /\ call.inserted = clean.inserted
            /\ call.stats = clean.stats

Swap(s, i, j) ==
    [k \in 1..Len(s) |-> IF k = i THEN s[j] ELSE IF k = j THEN s[i] ELSE s[k]]

\* the same designator with two of its tokens exchanged
Reordered(value) ==
    LET c == DayCandidates(value)
    IN  IF IsList(value)
        THEN {PyList(Swap(c, i, j)) : i, j \in 1..Len(c)}
        ELSE IF IsStr(value)
             THEN {PyStr(Join(Swap(c, i, j), <<",">>)) : i, j \in 1..Len(c)}
             ELSE {value}

PosInWeek(d) == CHOOSE i \in 1..7 : _DAY_ORDER[i] = d

IsWeekSubsequence(l) ==
    /\ \A i \in 1..Len(l) : l[i] \in DayCodes
    /\ \A i, j \in 1..Len(l) : i < j => PosInWeek(l[i]) < PosInWeek(l[j])

\* C9: whatever the input (list or delimited string, any order, repeats,
\* unrecognized tokens), the output of _normalize_days is a duplicate-free
\* subsequence of Sun..Sat, and exchanging any two input tokens leaves it
\* unchanged.
DaysCanonicalOrder ==
    dayResult # NotCalled =>
        /\ IsWeekSubsequence(dayResult.val)
        /\ \A v \in Reordered(dayValue) : _normalize_days(v) = dayResult.val

DaysCanonicalOrderWitness ==
    /\ dayValue = PyList(<<TokThuUpper, TokUnknown, TokSun>>)
    /\ dayResult = PyList(<<_DAY_ORDER[1], _DAY_ORDER[5]>>)

\* C10: normalizing the output of _normalize_days again gives the same list.
DaysIdempotent ==
    dayPrev # NotCalled => dayResult = dayPrev

DaysIdempotentWitness ==
    /\ dayPrev # NotCalled
    /\ Len(dayPrev.val) >= 2
    /\ dayInput # dayPrev
    /\ dayValue = dayPrev

---------------------------------------------------------------------------
\* Calls of _canon_slot_key

CodeAPadded == <<" ", "A", "tab">>

\* what a days argument may hold: day codes and other tokens
KeyDayTokens == {_DAY_ORDER[1], _DAY_ORDER[3], TokTueLower}

KeyInputs ==
    [code : {CodeA, CodeASpaced, CodeAPadded, CodeAColon},
     start : {PyStr(T0800), PyStr(T0830)},
     end : {PyStr(T0950)},
     days : SeqsUpTo(KeyDayTokens, MaxTokens)]

InitKey ==
    /\ keyArgs \in KeyInputs
    /\ keyResult = NotCalled
    /\ IdleDays
    /\ IdleTime
    /\ IdleMerge
    /\ IdleDb
    /\ IdleErr
    /\ IdleProcs
    /\ IdleToken
    /\ IdleEntry
    /\ IdleFix

KeyOf(a) == PyStr(_canon_slot_key(a.code, a.start, a.end, a.days))

\* _canon_slot_key(code, start, end, days)
CanonSlotKey ==
    /\ keyResult = NotCalled
    /\ keyResult' = KeyOf(keyArgs)
    /\ UNCHANGED <<keyArgs, dayVars, timeVars, mergeVars, dbVars, errVars, procVars, tokenVars, entryVars, fixVars>>

NextKey == CanonSlotKey

SpecKey == InitKey /\ [][NextKey]_vars

\* two argument lists for logically identical slots
SameSlot(a, b) ==
    /\ Strip(a.code) = Strip(b.code)
    /\ a.start = b.start
    /\ a.end = b.end
    /\ SeqToSet(a.days) \cap DayCodes = SeqToSet(b.days) \cap DayCodes

\* C11: calls whose codes are equal after trimming, whose start and end are
\* equal and whose days hold the same set of day codes, in any order and with
\* any repetition, get the same key.
KeyStable ==
    keyResult # NotCalled =>
        \A other \in KeyInputs : SameSlot(keyArgs, other) => KeyOf(other) = keyResult

KeyStableWitness ==
    /\ keyResult # NotCalled
    /\ keyArgs.code = CodeAPadded
    /\ keyArgs.days = <<_DAY_ORDER[3], _DAY_ORDER[1], _DAY_ORDER[3]>>
    /\ keyResult = KeyOf([keyArgs EXCEPT !.code = CodeA, !.days = <<_DAY_ORDER[1], _DAY_ORDER[3]>>])

---------------------------------------------------------------------------
\* The rows written by upsert_classes_from_parsed

\* a five-character zero-padded HH:MM text
IsHhmmText(v) ==
    /\ IsStr(v)
    /\ Len(v.val) = 5
    /\ v.val[3] = ":"
    /\ \A i \in {1, 2, 4, 5} : IsDigit(v.val[i])

WellFormedSlot(row) ==
    /\ IsStr(row.class_code)
    /\ row.class_code.val # <<>>
    /\ Strip(row.class_code.val) = row.class_code.val
    /\ IsList(row.days_of_week)
    /\ row.days_of_week.val # <<>>
    /\ IsWeekSubsequence(row.days_of_week.val)
    /\ IsHhmmText(row.start_time)
    /\ IsHhmmText(row.end_time)

\* C12: every slot upsert_classes_from_parsed inserts has a non-empty trimmed
\* class_code, a non-empty list of day codes in Sun..Sat order, and a
\* start_time and end_time that are five-character zero-padded HH:MM texts.
InsertedWellFormed ==
    call # NotCalled =>
        \A k \in 1..Len(call.inserted) : WellFormedSlot(call.inserted[k])

---------------------------------------------------------------------------
\* Exceptions

\* C13: no entry and no stored record with an absent, null, empty or
\* unexpectedly typed field makes upsert_classes_from_parsed raise.
NeverRaises == raised = NoError

---------------------------------------------------------------------------
\* What a call writes

\* C14: a call leaves every stored record as it was, deletes nothing, appends
\* one row per slot that is not a duplicate and none for a duplicate, and
\* returns updated = 0.
DuplicateWritesNothing ==
    [][/\ Len(store') >= Len(store)
       /\ \A i \in 1..Len(store) : store'[i] = store[i]
       /\ call' # NotCalled =>
              /\ call'.stats.updated = 0
              /\ Len(store') = Len(store) + Len(call'.norm) - call'.stats.skipped]_vars

\* a slot with a name was skipped against a stored record without one
DuplicateWritesNothingWitness ==
    /\ call # NotCalled
    /\ call.stats.skipped = 1
    /\ Len(call.norm) = 1
    /\ call.norm[1].class_name = NameN1
    /\ Len(call.existing) = 1
    /\ call.existing[1].class_name = PyStr(<<>>)
    /\ store = call.before

---------------------------------------------------------------------------
\* Invocations of two users, interleaved at the calls to the table

Users == {ActiveUser, OtherUser}

\* the entries given with a start and an end and no name
ConcItems == {it \in GoodItems : it.class_name = None}

ConcPayloads ==
    {[normalized |-> None, classes |-> PyList(l)] : l \in SeqsUpTo(ConcItems, MaxBatch)}

ConcStores == {
    <<>>,
    <<StoredRow(ActiveUser, SunTueList)>>,
    <<StoredRow(OtherUser, SunTueList)>>,
    <<StoredRow(ActiveUser, SunTueList), StoredRow(OtherUser, SunTueList)>> }

\* an invocation that has not begun
IdleProc ==
    [pc |-> "idle", parsed_json |-> [normalized |-> None, classes |-> None], norm |-> <<>>,
     todo |-> <<>>, existing |-> <<>>,
     loop |-> [seen |-> {}, rows |-> <<>>, inserted |-> 0, skipped |-> 0]]

InitConc ==
    /\ store \in ConcStores
    /\ startStore = store
    /\ secs \in BOOLEAN
    /\ procs = [u \in Users |-> IdleProc]
    /\ call = NotCalled
    /\ calls = 0
    /\ IdleDays
    /\ IdleTime
    /\ IdleMerge
    /\ IdleKey
    /\ IdleErr
    /\ IdleToken
    /\ IdleEntry
    /\ IdleFix

ConcFrame == UNCHANGED <<startStore, secs, call, calls, dayVars, timeVars, mergeVars, keyVars, errVars, tokenVars, entryVars, fixVars>>

\* lines 313-338: the invocation of user u normalizes and merges its payload
Begin(u) ==
    /\ procs[u].pc = "idle"
    /\ \E parsed_json \in ConcPayloads :
           procs' = [procs EXCEPT ![u] = [@ EXCEPT !.pc = "merged", !.parsed_json = parsed_json,
                                                   !.norm = NormTable[parsed_json],
                                                   !.todo = NormTable[parsed_json]]]
    /\ UNCHANGED store
    /\ ConcFrame

\* lines 341-350: it reads the stored rows of its user and keys them
ReadExisting(u) ==
    /\ procs[u].pc = "merged"
    /\ procs' = [procs EXCEPT ![u] = [@ EXCEPT !.pc = "loop",
                     !.existing = get_classes_for_user(store, secs, u),
                     !.loop = [@ EXCEPT !.seen = {ExistingKey(r) : r \in SeqToSet(get_classes_for_user(store, secs, u))}]]]
    /\ UNCHANGED store
    /\ ConcFrame

\* lines 357-375, one slot: skipped, or inserted by one call to the table
LoopStep(u) ==
    /\ procs[u].pc = "loop"
    /\ procs[u].todo # <<>>
    /\ procs' = [procs EXCEPT ![u] = [@ EXCEPT !.todo = Tail(@),
                     !.loop = UpsertLoop(u, <<Head(procs[u].todo)>>, @)]]
    /\ store' = store \o SubSeq(procs'[u].loop.rows, Len(procs[u].loop.rows) + 1,
                                 Len(procs'[u].loop.rows))
    /\ ConcFrame

\* line 377
Finish(u) ==
    /\ procs[u].pc = "loop"
    /\ procs[u].todo = <<>>
    /\ procs' = [procs EXCEPT ![u] = [@ EXCEPT !.pc = "done"]]
    /\ UNCHANGED store
    /\ ConcFrame

NextConc ==
    \E u \in Users : Begin(u) \/ ReadExisting(u) \/ LoopStep(u) \/ Finish(u)

SpecConc == InitConc /\ [][NextConc]_vars

RowsOf(rows, u) == SelectSeq(rows, LAMBDA r : r.user_id = u)

\* the invocation of u ended as the call r
EndedAs(u, r) ==
    /\ procs[u].loop.rows = r.inserted
    /\ procs[u].loop.inserted = r.stats.inserted
    /\ procs[u].loop.skipped = r.stats.skipped

\* the invocations ended as if a had run to its end before b began
AsIfInOrder(a, b) ==
    LET first == upsert_classes_from_parsed(startStore, secs, a, procs[a].parsed_json)
    IN  /\ EndedAs(a, first)
        /\ EndedAs(b, upsert_classes_from_parsed(startStore \o first.inserted, secs, b,
                                                 procs[b].parsed_json))
        /\ \A u \in Users :
               RowsOf(store, u) = RowsOf(startStore, u) \o procs[u].loop.rows

\* C15: however the invocations of two different users are interleaved, the
\* insert list and the counters of each, and the stored records of each user
\* at the end, are those of the invocations run one after the other, in
\* either order.
InterleavingAsSequential ==
    (\A u \in Users : procs[u].pc = "done") =>
        /\ AsIfInOrder(ActiveUser, OtherUser)
        /\ AsIfInOrder(OtherUser, ActiveUser)

\* both invocations inserted, and their inserts alternate in the table
InterleavingAsSequentialWitness ==
    /\ \A u \in Users : procs[u].pc = "done" /\ procs[u].loop.inserted >= 1
    /\ Len(store) >= 3
    /\ store[Len(store)].user_id = ActiveUser
    /\ store[Len(store) - 1].user_id = OtherUser
    /\ store[Len(store) - 2].user_id = ActiveUser

---------------------------------------------------------------------------
\* The shapes of a time text

\* the hour written with two digits
PaddedHour(h) == IF Len(h) = 1 THEN <<"0">> \o h ELSE h

\* the digits before the first colon or dot of a text, all of it if it has none
HourPart(text) ==
    IF \E i \in 1..Len(text) : text[i] \in {":", "."}
    THEN SubSeq(text, 1, IndexOfFirst(text, {":", "."}) - 1)
    ELSE text

\* the digits after the first colon or dot, none if the text has neither
MinutePart(text) ==
    IF \E i \in 1..Len(text) : text[i] \in {":", "."}
    THEN SubSeq(text, IndexOfFirst(text, {":", "."}) + 1, Len(text))
    ELSE <<>>

\* one or two hour digits, a dot, one digit
HourDotDigit(text) ==
    /\ Len(text) \in 3..4
    /\ text[Len(text) - 1] = "."
    /\ AllDigits(SubSeq(text, 1, Len(text) - 2))
    /\ IsDigit(text[Len(text)])

ShapedTimesHaveValue ==
    (hhmmResult # NotCalled /\ timeArg \in ShapedTimes) =>
        /\ hhmmResult.val # NoTime
        /\ MinutePart(timeArg) = <<>> =>
               hhmmResult.val = PaddedHour(HourPart(timeArg)) \o <<":", "0", "0">>

\* C18: two valid time tokens separated only by a blank give a start and an
\* end through the fallback split of _normalize_time_span.
BlankSeparatedSpan ==
    spanResult # NotCalled =>
        \A a, b \in SpanSides :
            (timeArg = a \o <<" ">> \o b /\ _to_hhmm(a) # NoTime /\ _to_hhmm(b) # NoTime)
                => spanResult.val = <<_to_hhmm(a), _to_hhmm(b)>>

---------------------------------------------------------------------------
\* Day names: calls of _normalize_day_token

\* the Arabic name of each day without the article, with its hamza and, where
\* the name begins with one, with a bare alef in its place
ArabicNames == <<
    {<<"alef_hamza", "hah", "dal">>, <<"alef", "hah", "dal">>},
    {<<"alef_hamza_below", "theh", "noon", "yeh", "noon">>, <<"alef", "theh", "noon", "yeh", "noon">>},
    {<<"theh", "lam", "alef", "theh", "alef", "hamza">>},
    {<<"alef_hamza", "reh", "beh", "ain", "alef", "hamza">>, <<"alef", "reh", "beh", "ain", "alef", "hamza">>},
    {<<"khah", "meem", "yeh", "seen">>},
    {<<"jeem", "meem", "ain", "teh_marbuta">>},
    {<<"seen", "beh", "teh">>} >>

\* a word in every mix of upper and lower case
CaseVariants(w) ==
    {[i \in 1..Len(w) |-> IF i \in S THEN UpperChar(w[i]) ELSE LowerChar(w[i])] : S \in SUBSET (1..Len(w))}

\* the ways of writing day i that are to be recognised
NamesOfDay(i) ==
    ArabicNames[i]
    \cup {ArticlePrefix \o n : n \in ArabicNames[i]}
    \cup CaseVariants(_DAY_ORDER[i])

DayNameTokens == UNION {NamesOfDay(i) : i \in 1..7}

InitToken ==
    /\ tokArg \in DayNameTokens
    /\ tokResult = NotCalled
    /\ IdleDays
    /\ IdleTime
    /\ IdleMerge
    /\ IdleDb
    /\ IdleKey
    /\ IdleErr
    /\ IdleProcs
    /\ IdleEntry
    /\ IdleFix

\* _normalize_day_token(tokArg)
NormalizeDayToken ==
    /\ tokResult = NotCalled
    /\ tokResult' = PyStr(_normalize_day_token(tokArg))
    /\ UNCHANGED <<tokArg, dayVars, timeVars, mergeVars, dbVars, keyVars, errVars, procVars, entryVars, fixVars>>

NextToken == NormalizeDayToken

SpecToken == InitToken /\ [][NextToken]_vars

\* C19: for each of the seven days, the Arabic name with and without the
\* article, with and without hamza, and the English three-letter abbreviation
\* in any letter case, are mapped to the code of the day.
DayNamesRecognised ==
    tokResult # NotCalled =>
        \A i \in 1..7 : tokArg \in NamesOfDay(i) => tokResult.val = _DAY_ORDER[i]

---------------------------------------------------------------------------
\* The keys of the stored records

\* the day codes a stored days value holds, as a list, as "Sun,Tue" text or
\* as "{Sun,Tue}" text
StoredDaySet(v) ==
    IF IsStr(v)
    THEN SeqToSet(DayCandidates(PyStr(RemoveChars(v.val, {"{", "}"})))) \cap DayCodes
    ELSE SeqToSet(DayCandidates(v)) \cap DayCodes

\* code, start, end and day set of a stored record
StoredKey(r) ==
    <<Strip(r.class_code.val), TakeFirst(StrOf(r.start_time), 5),
      TakeFirst(StrOf(r.end_time), 5), StoredDaySet(r.days_of_week)>>

\* no two records of the user in the rows have the same key
KeysUnique(rows, u) ==
    \A i, j \in 1..Len(rows) :
        (i < j /\ rows[i].user_id = u /\ rows[j].user_id = u)
            => StoredKey(rows[i]) # StoredKey(rows[j])

\* C20: when no two stored records of the user had the same key (code, start,
\* end, day set) before a call, none have after it, and applying the same
\* payload again inserts nothing.
StoredKeysStayUnique ==
    (call # NotCalled /\ KeysUnique(call.before, call.user_id)) =>
        /\ KeysUnique(store, call.user_id)
        /\ upsert_classes_from_parsed(store, secs, call.user_id, call.parsed_json).inserted = <<>>

---------------------------------------------------------------------------
\* One raw class entry through both per-item normalizations

TimeEmpty == PyStr(<<>>)

SpanTextBad == PyStr(<<"8", ".", "0", " ", "9", ".", "5", "0">>)

\* what a reply may carry under start_time or end_time
EntryTimes == {None, TimeEmpty, PyStr(T8dot0), PyStr(T9dot50), TimeTBA, PyNum(9)}

\* what it may carry under time or time_span
EntrySpans == {None, TimeEmpty, SpanText0800to950, SpanTextBad}

RawEntries ==
    {[BlankItem EXCEPT !.class_code = c, !.days_of_week = d, !.start_time = st,
                       !.end_time = en, !.time = t, !.time_span = ts] :
        c \in {PyStr(CodeA), None}, d \in {DaysSun, DaysUnknown},
        st \in EntryTimes, en \in EntryTimes,
        t \in EntrySpans, ts \in {None, SpanText0800to950}}

InitEntry ==
    /\ rawEntry \in RawEntries
    /\ geminiSlot = NotCalled
    /\ upsertSlot = NotCalled
    /\ IdleDays
    /\ IdleTime
    /\ IdleMerge
    /\ IdleDb
    /\ IdleKey
    /\ IdleErr
    /\ IdleProcs
    /\ IdleToken
    /\ IdleFix

\* the loop body of gemini_extract_schedule on rawEntry
GeminiNormalize ==
    /\ geminiSlot = NotCalled
    /\ geminiSlot' = PyList(GeminiItem(rawEntry))
    /\ UNCHANGED <<rawEntry, upsertSlot, dayVars, timeVars, mergeVars, dbVars, keyVars, errVars, procVars, tokenVars, fixVars>>

\* the loop body of upsert_classes_from_parsed on rawEntry
UpsertNormalize ==
    /\ upsertSlot = NotCalled
    /\ upsertSlot' = PyList(NormItem(rawEntry))
    /\ UNCHANGED <<rawEntry, geminiSlot, dayVars, timeVars, mergeVars, dbVars, keyVars, errVars, procVars, tokenVars, fixVars>>

NextEntry == GeminiNormalize \/ UpsertNormalize

SpecEntry == InitEntry /\ [][NextEntry]_vars

\* (class_code, days, start, end) of a normalized entry
SlotFields(it) == <<it.class_code, it.days_of_week, it.start_time, it.end_time>>

\* both dropped the entry, or both kept it with the same fields
SameOutcome(a, b) ==
    /\ Len(a) = Len(b)
    /\ \A i \in 1..Len(a) : SlotFields(a[i]) = SlotFields(b[i])

\* C21: for every raw class entry the per-item normalization of
\* gemini_extract_schedule and that of upsert_classes_from_parsed agree: both
\* drop the entry or both give the same (class_code, days, start, end); this
\* includes entries whose start_time and end_time are absent or empty and
\* whose times stand only in a combined "time" or "time_span" string
NormalizationsAgree ==
    (geminiSlot # NotCalled /\ upsertSlot # NotCalled)
        => SameOutcome(geminiSlot.val, upsertSlot.val)

---------------------------------------------------------------------------
\* A reply normalized and merged, and the result normalized and merged again

TokThuList == PyList(<<TokThuUpper>>)

TimePadded8dot0 == PyStr(<<" ", "8", ".", "0", " ">>)

TimeAr8dot50 == PyStr(<<"ar8", "ardecimal", "ar5", "ar0">>)

Time8dot75 == PyStr(<<"8", ".", "7", "5">>)

\* entries that meet an entry of GoodItems in a slot, or bring times in
\* other notations, a name, a location, or a time that is not text
FixExtraItems == {
    [BlankItem EXCEPT !.class_code = PyStr(CodeA), !.days_of_week = TokThuList,
                      !.start_time = PyStr(T8dot0), !.end_time = PyStr(T0950),
                      !.class_name = NameN2, !.location = LocL1],
    [BlankItem EXCEPT !.class_code = PyStr(CodeASpaced), !.days_of_week = DaysTue,
                      !.start_time = TimePadded8dot0, !.end_time = TimeAr8dot50,
                      !.class_name = NameBlank, !.location = LocL2],
    [BlankItem EXCEPT !.class_code = PyStr(CodeA), !.days_of_week = DaysTue,
                      !.start_time = PyStr(T9dot5), !.end_time = Time8dot75],
    [BlankItem EXCEPT !.class_code = PyStr(CodeA), !.days_of_week = DaysTue,
                      !.start_time = PyStr(T8dot0), !.end_time = PyNum(9),
                      !.class_name = NameN1],
    [BlankItem EXCEPT !.class_code = PyStr(CodeA), !.days_of_week = DaysSun,
                      !.time_span = SpanText0800to950] }

FixItems == UpsertItems \cup FixExtraItems

InitFix ==
    /\ fixInput \in SeqsUpTo(FixItems, MaxBatch)
    /\ fixOnce = NotCalled
    /\ fixTwice = NotCalled
    /\ IdleDays
    /\ IdleTime
    /\ IdleMerge
    /\ IdleDb
    /\ IdleKey
    /\ IdleErr
    /\ IdleProcs
    /\ IdleToken
    /\ IdleEntry

\* gemini_extract_schedule, lines 271-300, on the reply {"classes": fixInput}
ExtractNormalized ==
    /\ fixOnce = NotCalled
    /\ fixOnce' = PyList(GeminiNormalized([normalized |-> None, classes |-> PyList(fixInput)]))
    /\ UNCHANGED <<fixInput, fixTwice, dayVars, timeVars, mergeVars, dbVars, keyVars, errVars, procVars, tokenVars, entryVars>>

\* upsert_classes_from_parsed, lines 313-338, on {"classes": fixInput}
UpsertNormalized ==
    /\ fixOnce = NotCalled
    /\ fixOnce' = PyList(NormalizedPayload([normalized |-> None, classes |-> PyList(fixInput)]))
    /\ UNCHANGED <<fixInput, fixTwice, dayVars, timeVars, mergeVars, dbVars, keyVars, errVars, procVars, tokenVars, entryVars>>

\* upsert_classes_from_parsed, lines 313-338, on {"normalized": fixOnce}
Renormalize ==
    /\ fixOnce # NotCalled
    /\ fixTwice = NotCalled
    /\ fixTwice' = PyList(NormalizedPayload([normalized |-> fixOnce, classes |-> None]))
    /\ UNCHANGED <<fixInput, fixOnce, dayVars, timeVars, mergeVars, dbVars, keyVars, errVars, procVars, tokenVars, entryVars>>

NextFix == ExtractNormalized \/ UpsertNormalized \/ Renormalize

SpecFix == InitFix /\ [][NextFix]_vars

\* the texts under start_time and end_time in a list of entries
TimeTextsOf(its) ==
    {its[i].start_time.val : i \in {j \in 1..Len(its) : IsStr(its[j].start_time)}}
    \cup {its[i].end_time.val : i \in {j \in 1..Len(its) : IsStr(its[j].end_time)}}

ToHhmmIdempotentOn(texts) ==
    \A x \in texts : _to_hhmm(x) # NoTime => _to_hhmm(_to_hhmm(x)) = _to_hhmm(x)

MergeIdempotentOn(L) == _merge_slots(_merge_slots(L)) = _merge_slots(L)

\* C22: re-normalization is a fixpoint: a normalized and merged slot list
\* passed through the per-item normalization of upsert_classes_from_parsed
\* and _merge_slots again comes out as the same slots, with the same
\* class_code, class_name, location, days_of_week, start_time and end_time;
\* _to_hhmm(_to_hhmm(x)) = _to_hhmm(x) whenever _to_hhmm(x) is a value, and
\* _merge_slots(_merge_slots(L)) = _merge_slots(L)
RenormalizationFixpoint ==
    /\ fixTwice # NotCalled => fixTwice = fixOnce
    /\ ToHhmmIdempotentOn(TimeTextsOf(fixInput))
    /\ MergeIdempotentOn(fixInput)
    /\ MergeIdempotentOn(NormAll(fixInput))
    /\ MergeIdempotentOn(GeminiAll(fixInput))

\* two entries that needed normalizing were merged into one slot with a name,
\* and that slot went through the normalization again
RenormalizationFixpointWitness ==
    /\ fixTwice # NotCalled
    /\ Len(fixInput) = 2
    /\ Len(fixOnce.val) = 1
    /\ Truthy(fixOnce.val[1].class_name)
    /\ Len(fixOnce.val[1].days_of_week.val) > 1
    /\ \E x \in TimeTextsOf(fixInput) : _to_hhmm(x) \notin {NoTime, x}

====
